---- MODULE Spec2Model ----
(***************************************************************************)
(* Model of lambda_function.py: a Lambda handler that starts or stops the  *)
(* EC2 instances carrying a configured tag.  One invocation is a linear    *)
(* sequence: test the event for 'operation', resolve the instance state to *)
(* filter on, call describe_instances, collect the instance ids, dispatch  *)
(* on the operation, call start_instances / stop_instances, return.  The   *)
(* provider (EC2) is modelled as far as the handler observes it: a set of  *)
(* tagged instances grouped in reservations, a filtered listing, the two   *)
(* bulk calls, and the possibility that any call raises.                   *)
(***************************************************************************)
EXTENDS Integers, Sequences, FiniteSets, TLC

\* Number of instances the account holds.
NumInstances == 3

\* os.environ["EC2TAG_KEY"], os.environ["EC2TAG_VALUE"]
EC2TAG_KEY == "Environment"
EC2TAG_VALUE == "dev"

VARIABLES
  instances,              \* provider side: index -> [InstanceId, Tags, State]
  event,                  \* the event of the current invocation
  pc,                     \* position of the handler
  instance_state_values,  \* local of get_list_of_servers_with_tag
  response,               \* local of get_list_of_servers_with_tag
  server_ids,             \* local of lambda_handler
  printed,                \* what the invocation has printed, in order
  calls,                  \* provider calls of the invocation, in order
  seen,                   \* the instances as they were when describe_instances answered
  result,                 \* the value returned to the caller ("None" before the return)
  unhandled               \* the exception that escaped to the caller ("None" if none)

vars == <<instances, event, pc, instance_state_values, response, server_ids,
          printed, calls, seen, result, unhandled>>

Range(s) == {s[k] : k \in DOMAIN s}

-----------------------------------------------------------------------------
(* The provider, as the handler's calls see it.                            *)

InstanceId(n) == "i-" \o ToString(n)

\* Instances are launched in reservations: 1 and 2 together, 3 and 4, ...
ReservationOf(n) == (n + 1) \div 2

\* The tag an instance may carry: the configured one, the configured key
\* with another value, another key with the configured value.
TagChoices ==
  { {[Key |-> EC2TAG_KEY, Value |-> EC2TAG_VALUE]},
    {[Key |-> EC2TAG_KEY, Value |-> "prod"]},
    {[Key |-> "Owner", Value |-> EC2TAG_VALUE]} }

\* Exceptions a boto3 client call raises (subclasses of Exception).
ProviderErrors == {"ClientError", "EndpointConnectionError"}

\* One filter of describe_instances: the Values are alternatives.
FilterMatches(inst, f) ==
  IF f.Name = "instance-state-name"
  THEN inst.State \in Range(f.Values)
  ELSE \E t \in inst.Tags : f.Name = "tag:" \o t.Key /\ t.Value \in Range(f.Values)

RECURSIVE SortedSeq(_, _)
SortedSeq(S, reversed) ==
  IF S = {} THEN <<>>
  ELSE LET m == IF reversed
                THEN CHOOSE x \in S : \A y \in S : y <= x
                ELSE CHOOSE x \in S : \A y \in S : x <= y
       IN <<m>> \o SortedSeq(S \ {m}, reversed)

\* ec2.describe_instances(Filters=...): the instances matching every filter,
\* grouped by reservation; a reservation without a matching instance is absent.
DescribeInstances(Filters, world, reversed) ==
  LET matching == {n \in DOMAIN world : \A k \in DOMAIN Filters : FilterMatches(world[n], Filters[k])}
      resSeq   == SortedSeq({ReservationOf(n) : n \in matching}, reversed)
      members(r) == SortedSeq({n \in matching : ReservationOf(n) = r}, FALSE)
  IN [Reservations |->
        [k \in DOMAIN resSeq |->
           [ReservationId |-> resSeq[k],
            Instances |-> [j \in DOMAIN members(resSeq[k]) |->
                             [InstanceId |-> world[members(resSeq[k])[j]].InstanceId]]]]]

\* ec2.start_instances(InstanceIds=ids): stopped instances begin to start.
StartInstances(world, ids) ==
  [n \in DOMAIN world |->
     IF world[n].InstanceId \in Range(ids) /\ world[n].State = "stopped"
     THEN [world[n] EXCEPT !.State = "pending"] ELSE world[n]]

\* ec2.stop_instances(InstanceIds=ids): running instances begin to stop.
StopInstances(world, ids) ==
  [n \in DOMAIN world |->
     IF world[n].InstanceId \in Range(ids) /\ world[n].State = "running"
     THEN [world[n] EXCEPT !.State = "stopping"] ELSE world[n]]

-----------------------------------------------------------------------------
(* get_list_of_servers_with_tag                                            *)

\* Variant of ResolveState: an unknown operation yields the empty list
\* instead of the string.
ResolveStateEmptyOnInvalid(EC2_ACTION) ==
  IF EC2_ACTION = "stop" THEN [returns |-> FALSE, instance_state_values |-> <<"running">>]
  ELSE IF EC2_ACTION = "start" THEN [returns |-> FALSE, instance_state_values |-> <<"stopped">>]
  ELSE [returns |-> TRUE, value |-> <<>>]

\* Lines 17-22: the state to filter on, or the early return.
ResolveState(EC2_ACTION) ==
  IF EC2_ACTION = "stop" THEN [returns |-> FALSE, instance_state_values |-> <<"running">>]
  ELSE IF EC2_ACTION = "start" THEN [returns |-> FALSE, instance_state_values |-> <<"stopped">>]
  ELSE [returns |-> TRUE, value |-> "Invalid Operation"]

\* Variant of Filters: the instance-state-name filter is left out.
FiltersTagOnly(key, value, state_values) ==
  << [Name |-> "tag:" \o key, Values |-> <<value>>] >>

\* Lines 25-34: the Filters argument.
Filters(key, value, state_values) ==
  << [Name |-> "tag:" \o key, Values |-> <<value>>],
     [Name |-> "instance-state-name", Values |-> state_values] >>

\* Variant of AppendInstances: only the first instance of a reservation
\* is taken (server['Instances'][0]).
AppendFirstInstance(ids, insts, j) ==
  IF Len(insts) = 0 THEN ids ELSE Append(ids, insts[1].InstanceId)

\* Lines 38-39: the inner loop appends each instance's id.
RECURSIVE AppendInstances(_, _, _)
AppendInstances(ids, insts, j) ==
  IF j > Len(insts) THEN ids
  ELSE AppendInstances(Append(ids, insts[j].InstanceId), insts, j + 1)

\* Line 37: the outer loop over the reservations.
RECURSIVE AppendReservations(_, _, _)
AppendReservations(ids, reservations, k) ==
  IF k > Len(reservations) THEN ids
  ELSE AppendReservations(AppendInstances(ids, reservations[k].Instances, 1), reservations, k + 1)

\* Lines 16, 36-40.
CollectServerIds(resp) ==
  IF Len(resp.Reservations) > 0
  THEN AppendReservations(<<>>, resp.Reservations, 1)
  ELSE <<>>

-----------------------------------------------------------------------------
(* lambda_handler                                                          *)

Events ==
  { [operation |-> "start"], [operation |-> "stop"],
    [operation |-> "reboot"], [operation |-> ""], <<>> }

NoResponse == [Reservations |-> <<>>]

Call(api, args, outcome) == [api |-> api, args |-> args, outcome |-> outcome]

\* Lines 52, 55.
ServersTo(operation, ids) == "Servers to " \o operation \o ": " \o ToString(ids)

\* Line 60.
NoServersTo(operation) == "No Servers to " \o operation

\* Line 65.
ErrorMessage(error) == "Error occuried! Error Message: " \o error

Init ==
  /\ \E tags \in [1..NumInstances -> TagChoices], states \in [1..NumInstances -> {"running", "stopped"}] :
        instances = [n \in 1..NumInstances |->
                       [InstanceId |-> InstanceId(n), Tags |-> tags[n], State |-> states[n]]]
  /\ event = <<>>
  /\ pc = "idle"
  /\ instance_state_values = <<>>
  /\ response = NoResponse
  /\ server_ids = <<>>
  /\ printed = <<>>
  /\ calls = <<>>
  /\ seen = instances
  /\ result = "None"
  /\ unhandled = "None"

\* The runtime calls lambda_handler(event, context); the locals start afresh.
Invoke(e) ==
  /\ pc \in {"idle", "done"}
  /\ event' = e
  /\ pc' = "try"
  /\ instance_state_values' = <<>>
  /\ response' = NoResponse
  /\ server_ids' = <<>>
  /\ printed' = <<>>
  /\ calls' = <<>>
  /\ seen' = instances
  /\ result' = "None"
  /\ unhandled' = "None"
  /\ UNCHANGED instances

\* Variant of Dispatch: the test len(server_ids) > 0 is left out.
DispatchWithoutEmptyCheck(ids) ==
  /\ IF event.operation = "start"
     THEN printed' = Append(printed, ServersTo(event.operation, ids)) /\ pc' = "action"
     ELSE IF event.operation = "stop"
     THEN printed' = Append(printed, ServersTo(event.operation, ids)) /\ pc' = "action"
     ELSE printed' = Append(printed, "Invalid Operation!") /\ pc' = "return"
  /\ UNCHANGED <<result, unhandled>>

\* Lines 50-60: the dispatch on the resolved list and the operation.  The
\* provider call of lines 53 and 56 is the next step (pc = "action").
Dispatch(ids) ==
  /\ IF Len(ids) > 0
     THEN IF event.operation = "start"
          THEN printed' = Append(printed, ServersTo(event.operation, ids)) /\ pc' = "action"
          ELSE IF event.operation = "stop"
          THEN printed' = Append(printed, ServersTo(event.operation, ids)) /\ pc' = "action"
          ELSE printed' = Append(printed, "Invalid Operation!") /\ pc' = "return"
     ELSE printed' = Append(printed, NoServersTo(event.operation)) /\ pc' = "return"
  /\ UNCHANGED <<result, unhandled>>

\* Variant of ExceptClause: no except clause, the exception reaches the caller.
PropagateError(error) ==
  /\ unhandled' = error
  /\ pc' = "done"
  /\ UNCHANGED <<printed, result>>

\* Variant of ExceptClause: the exception is swallowed without a message.
ExceptClauseSilent(error) ==
  /\ pc' = "return"
  /\ UNCHANGED <<printed, result, unhandled>>

\* Variant of ExceptClause: the failed call is tried again.
ExceptClauseRetry(error) ==
  /\ printed' = Append(printed, ErrorMessage(error))
  /\ UNCHANGED <<pc, result, unhandled>>

\* Lines 64-65: except Exception catches what a provider call raises.
ExceptClause(error) ==
  /\ printed' = Append(printed, ErrorMessage(error))
  /\ pc' = "return"
  /\ UNCHANGED <<result, unhandled>>

\* Variant of CheckOperation: the listing is queried before the event is
\* looked at.
CheckOperationQueriesFirst ==
  /\ pc = "try"
  /\ calls' = Append(calls, Call("describe_instances",
                                 Filters(EC2TAG_KEY, EC2TAG_VALUE, <<"running", "stopped">>), "ok"))
  /\ IF "operation" \in DOMAIN event
     THEN LET r == ResolveState(event.operation)
          IN IF r.returns
             THEN /\ server_ids' = r.value
                  /\ Dispatch(server_ids')
                  /\ UNCHANGED instance_state_values
             ELSE /\ instance_state_values' = r.instance_state_values
                  /\ pc' = "describe"
                  /\ UNCHANGED <<server_ids, printed, result, unhandled>>
     ELSE /\ printed' = Append(printed, "No operation detected!")
          /\ pc' = "return"
          /\ UNCHANGED <<instance_state_values, server_ids, result, unhandled>>
  /\ UNCHANGED <<instances, event, response, seen>>

\* Lines 48-49, 61-62 and, through the call of line 49, lines 16-22.
CheckOperation ==
  /\ pc = "try"
  /\ IF "operation" \in DOMAIN event
     THEN LET r == ResolveState(event.operation)
          IN IF r.returns
             THEN /\ server_ids' = r.value
                  /\ Dispatch(server_ids')
                  /\ UNCHANGED instance_state_values
             ELSE /\ instance_state_values' = r.instance_state_values
                  /\ pc' = "describe"
                  /\ UNCHANGED <<server_ids, printed, result, unhandled>>
     ELSE /\ printed' = Append(printed, "No operation detected!")
          /\ pc' = "return"
          /\ UNCHANGED <<instance_state_values, server_ids, result, unhandled>>
  /\ UNCHANGED <<instances, event, response, calls, seen>>

\* Lines 24-40 and 49-60: describe_instances answers; the ids are collected
\* and the handler dispatches on them.
DescribeAnswers(reversed) ==
  /\ pc = "describe"
  /\ LET f == Filters(EC2TAG_KEY, EC2TAG_VALUE, instance_state_values)
     IN /\ calls' = Append(calls, Call("describe_instances", f, "ok"))
        /\ response' = DescribeInstances(f, instances, reversed)
  /\ server_ids' = CollectServerIds(response')
  /\ Dispatch(server_ids')
  /\ seen' = instances
  /\ UNCHANGED <<instances, event, instance_state_values>>

\* Lines 24-35: describe_instances raises.
DescribeRaises(error) ==
  /\ pc = "describe"
  /\ calls' = Append(calls, Call("describe_instances",
                                 Filters(EC2TAG_KEY, EC2TAG_VALUE, instance_state_values), error))
  /\ ExceptClause(error)
  /\ UNCHANGED <<instances, event, instance_state_values, response, server_ids, seen>>

\* Variant of BulkApi: both branches call stop_instances.
BulkApiAlwaysStop(operation) == "stop_instances"

\* Lines 51-56: which bulk call the branch taken issues.
BulkApi(operation) ==
  IF operation = "start" THEN "start_instances" ELSE "stop_instances"

\* Variant of BulkActionAnswers: one bulk call per instance instead of one
\* call for the whole list.
BulkActionPerInstance ==
  /\ pc = "action"
  /\ LET api == BulkApi(event.operation)
     IN /\ calls' = calls \o [j \in DOMAIN server_ids |-> Call(api, <<server_ids[j]>>, "ok")]
        /\ instances' = IF api = "start_instances"
                        THEN StartInstances(instances, server_ids)
                        ELSE StopInstances(instances, server_ids)
  /\ pc' = "return"
  /\ UNCHANGED <<event, instance_state_values, response, server_ids, printed, seen, result, unhandled>>

\* Lines 53, 56: the bulk call succeeds.
BulkActionAnswers ==
  /\ pc = "action"
  /\ LET api == BulkApi(event.operation)
     IN /\ calls' = Append(calls, Call(api, server_ids, "ok"))
        /\ instances' = IF api = "start_instances"
                        THEN StartInstances(instances, server_ids)
                        ELSE StopInstances(instances, server_ids)
  /\ pc' = "return"
  /\ UNCHANGED <<event, instance_state_values, response, server_ids, printed, seen, result, unhandled>>

\* Lines 53, 56: the bulk call raises.
BulkActionRaises(error) ==
  /\ pc = "action"
  /\ calls' = Append(calls, Call(BulkApi(event.operation), server_ids, error))
  /\ ExceptClause(error)
  /\ UNCHANGED <<instances, event, instance_state_values, response, server_ids, seen>>

\* Line 67.
Return ==
  /\ pc = "return"
  /\ result' = "Function Executed!"
  /\ pc' = "done"
  /\ UNCHANGED <<instances, event, instance_state_values, response, server_ids,
                 printed, calls, seen, unhandled>>

\* Provider side: an instance that start_instances / stop_instances set in
\* motion reaches its target state.
ProviderSettles(n) ==
  /\ instances[n].State \in {"pending", "stopping"}
  /\ instances' = [instances EXCEPT ![n].State = IF @ = "pending" THEN "running" ELSE "stopped"]
  /\ UNCHANGED <<event, pc, instance_state_values, response, server_ids,
                 printed, calls, seen, result, unhandled>>

\* One step of the invocation in progress.
HandlerStep ==
  \/ CheckOperation
  \/ \E error \in ProviderErrors : DescribeRaises(error)
  \/ \E reversed \in BOOLEAN : DescribeAnswers(reversed)
  \/ \E error \in ProviderErrors : BulkActionRaises(error)
  \/ BulkActionAnswers
  \/ Return

Next ==
  \/ \E e \in Events : Invoke(e)
  \/ HandlerStep
  \/ \E n \in 1..NumInstances : ProviderSettles(n)

Spec == Init /\ [][Next]_vars

-----------------------------------------------------------------------------
(* Vocabulary of the properties.                                           *)

FixedAcknowledgement == "Function Executed!"

HasOperation == "operation" \in DOMAIN event

Started == pc # "idle"

AtExit == pc \in {"return", "done"}

CallsTo(api) == {k \in DOMAIN calls : calls[k].api = api}

BulkCalls == CallsTo("start_instances") \cup CallsTo("stop_instances")

Failed == {k \in DOMAIN calls : calls[k].outcome # "ok"}

Answered == \E k \in CallsTo("describe_instances") : calls[k].outcome = "ok"

\* The ids of the instances of a world that carry the configured tag and
\* are in the given state.
TaggedInState(world, state) ==
  {world[n].InstanceId :
     n \in {m \in DOMAIN world :
              /\ [Key |-> EC2TAG_KEY, Value |-> EC2TAG_VALUE] \in world[m].Tags
              /\ world[m].State = state}}

NoDuplicates(s) == \A i, j \in DOMAIN s : s[i] = s[j] => i = j

Occurrences(s, x) == Cardinality({k \in DOMAIN s : s[k] = x})

\* What a successful invocation for `operation` must have selected and
\* called, the listing being for instances in `state`.
SelectsAndCalls(operation, state, api, otherApi) ==
  (Started /\ HasOperation /\ event.operation = operation /\ Failed = {}) =>
    /\ CallsTo(otherApi) = {}
    /\ Answered =>
         /\ Range(server_ids) = TaggedInState(seen, state)
         /\ NoDuplicates(server_ids)
    /\ (pc = "done" /\ Len(server_ids) > 0) =>
         /\ Cardinality(CallsTo(api)) = 1
         /\ \A k \in CallsTo(api) :
              /\ calls[k].args = server_ids
              /\ Range(calls[k].args) = TaggedInState(seen, state)

\* C1: an invocation with operation "stop" in which no provider call fails
\* selects exactly the instances that carry the configured tag and are
\* running; if there are any, exactly one stop_instances call is issued,
\* with exactly those ids, and no start_instances call.
C1_StopSelectsRunning == SelectsAndCalls("stop", "running", "stop_instances", "start_instances")

C1_Witness ==
  /\ pc = "done" /\ HasOperation /\ event.operation = "stop" /\ Failed = {}
  /\ Len(server_ids) >= 1
  /\ Len(calls) = 2 /\ calls[2].api = "stop_instances"
  /\ \E n \in DOMAIN seen : seen[n].State = "stopped" /\ seen[n].Tags = seen[1].Tags
  /\ \E n \in DOMAIN seen : seen[n].State = "running" /\ seen[n].InstanceId \notin Range(server_ids)
  /\ seen[1].InstanceId \in Range(server_ids)

\* C2: an invocation with operation "start" in which no provider call fails
\* selects exactly the instances that carry the configured tag and are
\* stopped; if there are any, exactly one start_instances call is issued,
\* with exactly those ids, and no stop_instances call.
C2_StartSelectsStopped == SelectsAndCalls("start", "stopped", "start_instances", "stop_instances")

C2_Witness ==
  /\ pc = "done" /\ HasOperation /\ event.operation = "start" /\ Failed = {}
  /\ Len(server_ids) >= 1
  /\ Len(calls) = 2 /\ calls[2].api = "start_instances"
  /\ \E n \in DOMAIN seen : seen[n].State = "running" /\ seen[n].Tags = seen[1].Tags
  /\ \E n \in DOMAIN seen : seen[n].State = "stopped" /\ seen[n].InstanceId \notin Range(server_ids)
  /\ seen[1].InstanceId \in Range(server_ids)

\* C3: whatever the event and whatever the provider calls do, no exception
\* reaches the caller, an invocation in progress can always take its next
\* step, and it ends returning the fixed string.
C3_AlwaysReturnsAcknowledgement ==
  /\ unhandled = "None"
  /\ pc = "done" => result = FixedAcknowledgement
  /\ pc \notin {"idle", "done"} => ENABLED HandlerStep

C3_Witness ==
  /\ pc = "done" /\ result = FixedAcknowledgement
  /\ Len(calls) = 2 /\ calls[2].outcome \in ProviderErrors

\* C4: an event without 'operation' leads to no provider call at all, and
\* the invocation returns the fixed string.
C4_NoOperationNoCalls ==
  (Started /\ ~HasOperation) =>
    /\ calls = <<>>
    /\ pc = "done" => result = FixedAcknowledgement

C4_Witness ==
  /\ pc = "done" /\ ~HasOperation
  /\ printed = <<"No operation detected!">>
  /\ result = FixedAcknowledgement

\* C5: an operation other than "start" and "stop" leads to no provider
\* call; the invocation prints 'Invalid Operation!' (and not 'No Servers
\* to ...') and returns the fixed string.
C5_InvalidOperationNoCalls ==
  (Started /\ HasOperation /\ event.operation \notin {"start", "stop"}) =>
    /\ calls = <<>>
    /\ AtExit => printed = <<"Invalid Operation!">>
    /\ pc = "done" => result = FixedAcknowledgement

C5_Witness ==
  /\ pc = "done" /\ HasOperation /\ event.operation = "reboot"
  /\ printed = <<"Invalid Operation!">>
  /\ result = FixedAcknowledgement

\* C6: when the listing yields no instance, neither start_instances nor
\* stop_instances is called; no bulk call ever carries an empty id list.
C6_NoTargetsNoAction ==
  /\ \A k \in BulkCalls : Len(calls[k].args) > 0
  /\ (Started /\ Answered /\ Len(server_ids) = 0) => (BulkCalls = {} /\ AtExit)

C6_Witness ==
  /\ pc = "done" /\ Answered /\ Len(server_ids) = 0
  /\ event.operation = "stop"
  /\ \E n \in DOMAIN seen : seen[n].State = "running"

\* C7: an invocation issues at most one describe_instances call and at most
\* one bulk call, and a bulk call only after the describe_instances call of
\* the same invocation has answered.
C7_AtMostOneQueryThenOneAction ==
  /\ Cardinality(CallsTo("describe_instances")) <= 1
  /\ Cardinality(BulkCalls) <= 1
  /\ \A k \in BulkCalls :
       /\ k = 2
       /\ calls[1].api = "describe_instances"
       /\ calls[1].outcome = "ok"

C7_Witness ==
  /\ pc = "done" /\ Len(calls) = 2 /\ Failed = {}
  /\ Len(calls[2].args) >= 2

\* C8: no invocation reaches its return statement without having printed
\* the message of its outcome: 'Servers to <operation>' before a bulk call,
\* 'No Servers to <operation>' when nothing matched, 'Invalid Operation!',
\* 'No operation detected!', and the error message when a call raised.
C8_EveryOutcomeReported ==
  /\ AtExit => Len(printed) >= 1
  /\ (AtExit /\ ~HasOperation) => "No operation detected!" \in Range(printed)
  /\ (AtExit /\ HasOperation /\ event.operation \notin {"start", "stop"}) =>
       "Invalid Operation!" \in Range(printed)
  /\ (AtExit /\ Answered /\ Len(server_ids) = 0) =>
       NoServersTo(event.operation) \in Range(printed)
  /\ (pc = "action" \/ BulkCalls # {}) =>
       ServersTo(event.operation, server_ids) \in Range(printed)
  /\ \A k \in Failed : AtExit /\ ErrorMessage(calls[k].outcome) \in Range(printed)

C8_Witness ==
  /\ pc = "return" /\ Len(calls) = 2 /\ calls[2].outcome \in ProviderErrors
  /\ printed = <<ServersTo(event.operation, server_ids), ErrorMessage(calls[2].outcome)>>

\* C9: a provider call that raised is the last provider call of its
\* invocation: a failed describe_instances is the only call, a failed bulk
\* call is not repeated; the exception is printed once and goes no further.
C9_NoRetryAfterFailure ==
  \A k \in Failed :
    /\ k = Len(calls)
    /\ calls[k].api = "describe_instances" => Len(calls) = 1
    /\ k \in BulkCalls => Len(calls) = 2
    /\ AtExit
    /\ Occurrences(printed, ErrorMessage(calls[k].outcome)) = 1
    /\ unhandled = "None"

C9_Witness ==
  /\ pc = "done" /\ Len(calls) = 1 /\ calls[1].outcome \in ProviderErrors
  /\ \E n \in DOMAIN instances : instances[n].State \in Range(instance_state_values)

\* Number of instances in the reservations before the k-th.
RECURSIVE InstancesBefore(_, _)
InstancesBefore(reservations, k) ==
  IF k <= 1 THEN 0
  ELSE InstancesBefore(reservations, k - 1) + Len(reservations[k - 1].Instances)

\* C10: for a valid operation the list the resolver returns is the
\* InstanceId of every instance of every reservation of the response, in
\* response order, none omitted and none added (empty when the response
\* has no reservation), and holds only instances in the state relevant to
\* the operation: running for stop, stopped for start.
C10_IdsAreTheResponseInOrder ==
  (Started /\ Answered) =>
    LET rs == response.Reservations
        relevant == IF event.operation = "stop" THEN "running" ELSE "stopped"
    IN /\ Len(server_ids) = InstancesBefore(rs, Len(rs) + 1)
       /\ \A k \in DOMAIN rs : \A j \in DOMAIN rs[k].Instances :
            server_ids[InstancesBefore(rs, k) + j] = rs[k].Instances[j].InstanceId
       /\ Len(rs) = 0 => Len(server_ids) = 0
       /\ \A i \in DOMAIN server_ids : \E n \in DOMAIN seen :
            /\ seen[n].InstanceId = server_ids[i]
            /\ seen[n].State = relevant
            /\ pc = "action" => instances[n].State = relevant

C10_Witness ==
  /\ Started /\ Answered
  /\ Len(response.Reservations) = 2
  /\ Len(response.Reservations[1].Instances) = 1
  /\ Len(response.Reservations[2].Instances) = 2
  /\ Len(server_ids) = 3

====
